---- MODULE Spec2Model ----
(***************************************************************************)
(* Model of scripts/fetch_regulations.py (class RegulationFetcher, main)   *)
(* and scripts/update_metadata.py (update_metadata, main).                 *)
(*                                                                         *)
(* A JSON object is a function from its keys to its values; a JSON value   *)
(* that is not an object is the one-key function JsonScalar.  A file is a  *)
(* record [state, data] with state "absent", "malformed" or "json".        *)
(***************************************************************************)
EXTENDS Integers, Sequences, FiniteSets, TLC

VARIABLES
  countries_data,   \* RegulationFetcher.countries_data
  countries_file,   \* data/countries.json
  country_files,    \* data/countries/<CODE>.json, a function code -> content
  metadata_file,    \* data/metadata.json
  today,            \* the day of the month datetime.now() returns
  pc,               \* position of the fetch process: a step of run(), or "api"
  exit_code,        \* what fetch_regulations.main returned (-1 while it runs)
  last_call,        \* name of the last RegulationFetcher method called
  raised,           \* whether that call raised
  before,           \* countries_data when that call started
  call_day,         \* the day on which that call was made
  steps,            \* the methods run() has completed, in order
  at_start,         \* the files as they were when the fetch process started
  meta_run          \* the last run of update_metadata.main

vars == <<countries_data, countries_file, country_files, metadata_file, today,
          pc, exit_code, last_call, raised, before, call_day, steps, at_start,
          meta_run>>

(* ------------------------------ bounds --------------------------------- *)
FirstDay == 9
MaxDay == 10

(* --------------------------- JSON values ------------------------------- *)
EmptyObject == [k \in {} |-> ""]

JsonScalar == [scalar |-> "text"]

IsDict(v) == "scalar" \notin DOMAIN v

\* d[k] = v   and   d.update(patch)   on a dict
SetItems(d, patch) ==
  [k \in DOMAIN d \cup DOMAIN patch |-> IF k \in DOMAIN patch THEN patch[k] ELSE d[k]]

AbsentFile == [state |-> "absent", data |-> EmptyObject]
MalformedFile == [state |-> "malformed", data |-> EmptyObject]
JsonFile(v) == [state |-> "json", data |-> v]

(* --------------------------- the clock --------------------------------- *)
Pad2(n) == IF n < 10 THEN "0" \o ToString(n) ELSE ToString(n)

\* datetime.now().strftime('%Y-%m-%d'), for a day of November 2026
strftime(day) == "2026-11-" \o Pad2(day)

(* ------------------- the Singapore knowledge base ---------------------- *)
\* the record created when the store has no 'SG' key
SGSkeleton ==
  [overview |-> "", regulations |-> <<>>, requirements |-> <<>>,
   authorities |-> <<>>, sources |-> <<>>, whitepapers |-> <<>>,
   consultationPapers |-> <<>>, legalFramework |-> <<>>]

\* the literals assigned to sg_data[...]; each list item is named by its
\* title / law / name, in the order of the source
SGKnowledgeBase ==
  [overview |-> "Singapore has established a comprehensive and progressive regulatory framework",
   regulations |-> <<"Payment Services Act (PSA) 2019", "Securities and Futures Act (SFA)",
                     "MAS Notice PSN01", "MAS Guidelines on Digital Token Offerings",
                     "Variable Capital Companies Act 2018">>,
   whitepapers |-> <<"Project Guardian", "Project Orchid: Retail CBDC",
                     "Project Ubin Phase 5", "Stablecoin Regulatory Framework">>,
   consultationPapers |-> <<"Stablecoin-related Activities",
                            "Proposed Amendments to the Payment Services Act",
                            "Financial Services and Markets Bill">>,
   legalFramework |-> <<"Payment Services Act 2019", "Securities and Futures Act",
                        "Financial Services and Markets Act 2022">>,
   requirements |-> <<"License", "Capital", "AML/CFT", "Technology risk", "Safeguarding",
                      "Consumer protection", "Audit", "Security tokens", "Stablecoin issuers",
                      "Corporate governance">>,
   authorities |-> <<"Monetary Authority of Singapore (MAS)",
                     "Accounting and Corporate Regulatory Authority (ACRA)",
                     "Singapore Police Force - Commercial Affairs Department">>,
   sources |-> <<"MAS Payment Services", "MAS Digital Assets", "Payment Services Act 2019",
                 "Securities and Futures Act", "Project Guardian",
                 "MAS Guidelines on Digital Token Offerings", "Singapore Statutes Online">>]

\* everything fetch_singapore_mas_data assigns to sg_data
SGAssignments(day) ==
  SetItems(SGKnowledgeBase,
           [lastUpdated |-> strftime(day), autoFetched |-> TRUE, dataVersion |-> "2.0"])

(* ------------------------- the updaters -------------------------------- *)
\* an assignment sg_data[k] = v raises TypeError when sg_data is not a dict
SGRaises(store) == "SG" \in DOMAIN store /\ ~IsDict(store["SG"])

\* as if the updater built a new store holding the Singapore record only
fetch_singapore_resets_store(store, day) ==
  [c \in {"SG"} |-> SetItems(IF "SG" \notin DOMAIN store THEN SGSkeleton ELSE store["SG"],
                             SGAssignments(day))]

\* as if the updater assigned a new record instead of updating the stored one
fetch_singapore_full_replace(store, day) ==
  SetItems(store, [c \in {"SG"} |-> SGAssignments(day)])

\* as if the updater extended the stored lists instead of assigning them
fetch_singapore_appends(store, day) ==
  LET sg_data == IF "SG" \notin DOMAIN store THEN SGSkeleton ELSE store["SG"]
      old(k) == IF k \in DOMAIN sg_data THEN sg_data[k] ELSE <<>>
      extended == [k \in DOMAIN SGAssignments(day) |->
                     IF k \in {"regulations", "requirements", "authorities", "sources",
                               "whitepapers", "consultationPapers", "legalFramework"}
                     THEN old(k) \o SGAssignments(day)[k]
                     ELSE SGAssignments(day)[k]]
  IN  SetItems(store, [c \in {"SG"} |-> SetItems(sg_data, extended)])

\* the store after fetch_singapore_mas_data returns
fetch_singapore_mas_data(store, day) ==
  LET sg_data == IF "SG" \notin DOMAIN store THEN SGSkeleton ELSE store["SG"]
  IN  SetItems(store, [c \in {"SG"} |-> SetItems(sg_data, SGAssignments(day))])

PlaceholderRaises(store, code) == code \in DOMAIN store /\ ~IsDict(store[code])

\* as if the updater created the record it does not find
PlaceholderCreates(store, code, day) ==
  LET rec == IF code \in DOMAIN store THEN store[code] ELSE EmptyObject
  IN  SetItems(store,
        [c \in {code} |->
           SetItems(rec, [lastUpdated |-> strftime(day), autoFetched |-> TRUE])])

\* as if the updater stamped the schema version as well
PlaceholderStampsVersion(store, code, day) ==
  IF code \in DOMAIN store
  THEN SetItems(store,
         [c \in {code} |->
            SetItems(store[code], [lastUpdated |-> strftime(day), autoFetched |-> TRUE,
                                   dataVersion |-> "2.0"])])
  ELSE store

\* the body shared by the three placeholder updaters
PlaceholderUpdate(store, code, day) ==
  IF code \in DOMAIN store
  THEN SetItems(store,
         [c \in {code} |->
            SetItems(store[code], [lastUpdated |-> strftime(day), autoFetched |-> TRUE])])
  ELSE store

fetch_us_sec_data(store, day) == PlaceholderUpdate(store, "US", day)

\* as if the updater tested for the Singapore record before patching GB
fetch_uk_tests_singapore(store, day) ==
  IF "SG" \in DOMAIN store THEN PlaceholderUpdate(store, "GB", day) ELSE store

fetch_uk_fca_data(store, day) == PlaceholderUpdate(store, "GB", day)

fetch_switzerland_finma_data(store, day) == PlaceholderUpdate(store, "CH", day)

\* whether the updater named op raises on the store
UpdaterRaises(op, store) ==
  CASE op = "sg" -> SGRaises(store)
    [] op = "us" -> PlaceholderRaises(store, "US")
    [] op = "gb" -> PlaceholderRaises(store, "GB")
    [] op = "ch" -> PlaceholderRaises(store, "CH")

\* the store after the updater named op returns
UpdaterResult(op, store, day) ==
  CASE op = "sg" -> fetch_singapore_mas_data(store, day)
    [] op = "us" -> fetch_us_sec_data(store, day)
    [] op = "gb" -> fetch_uk_fca_data(store, day)
    [] op = "ch" -> fetch_switzerland_finma_data(store, day)

\* the store after the updaters are called one after the other in the given
\* order; the first one that raises ends the sequence
RECURSIVE CallInOrder(_, _, _)
CallInOrder(order, store, day) ==
  IF order = <<>> \/ UpdaterRaises(Head(order), store)
  THEN store
  ELSE CallInOrder(Tail(order), UpdaterResult(Head(order), store, day), day)

\* the store fetch_all_sources leaves
fetch_all_sources(store, day) == CallInOrder(<<"sg", "us", "gb", "ch">>, store, day)

(* ----------------------- update_metadata.py ---------------------------- *)
DataSource == "Automated periodic updates and manual curation"

\* as if the count were never taken from the loaded file
total_countries_stays_zero(cfile) == 0

\* total_countries: len(countries_data) when data/countries.json exists, else 0
total_countries(cfile) ==
  IF cfile.state = "json" THEN Cardinality(DOMAIN cfile.data) ELSE 0

\* json.load of a malformed file raises, and so does metadata[k] = v when
\* the metadata file holds something other than an object
UpdateMetadataRaises(mfile, cfile) ==
  \/ mfile.state = "malformed"
  \/ cfile.state = "malformed"
  \/ mfile.state = "json" /\ ~IsDict(mfile.data)

\* as if the stored metadata were not loaded before the three fields are set
update_metadata_from_scratch(mfile, cfile, day) ==
  JsonFile([lastUpdated |-> strftime(day),
            totalCountries |-> total_countries(cfile),
            dataSource |-> DataSource])

\* the content update_metadata writes to data/metadata.json
update_metadata(mfile, cfile, day) ==
  LET metadata == IF mfile.state = "json" THEN mfile.data ELSE EmptyObject
  IN  JsonFile(SetItems(metadata,
        [lastUpdated |-> strftime(day),
         totalCountries |-> total_countries(cfile),
         dataSource |-> DataSource]))

(* ------------------------- sample inputs ------------------------------- *)
\* the codes the updaters know
Codes == {"SG", "US", "GB", "CH"}

\* a code no updater knows
OtherCode == "JP"

\* a record with a subset of the fields (placeholder state)
MinimalRecord == [overview |-> "prior overview", regulations |-> <<>>]

\* a record with every field the updaters write, and a key they do not know
RichRecord ==
  [overview |-> "prior overview", regulations |-> <<"prior regulation">>,
   requirements |-> <<"prior requirement">>, authorities |-> <<"prior authority">>,
   sources |-> <<"prior source">>, whitepapers |-> <<"prior whitepaper">>,
   consultationPapers |-> <<"prior paper">>, legalFramework |-> <<"prior law">>,
   lastUpdated |-> "2025-01-01", autoFetched |-> FALSE, dataVersion |-> "1.0",
   name |-> "prior name"]

Stores(codes, values) == UNION {[cs -> values] : cs \in SUBSET codes}

\* stores of records, the same with a record under OtherCode, and stores in
\* which one value is not an object
SampleStores ==
  Stores(Codes, {MinimalRecord, RichRecord})
    \cup {SetItems(s, [c \in {OtherCode} |-> MinimalRecord]) :
            s \in Stores(Codes, {RichRecord})}
    \cup {SetItems(s, [c \in {code} |-> JsonScalar]) :
            s \in Stores(Codes, {RichRecord}), code \in Codes}

SampleCountriesFiles == {AbsentFile, MalformedFile} \cup {JsonFile(s) : s \in SampleStores}

SampleMetadataFiles ==
  {AbsentFile, MalformedFile, JsonFile(JsonScalar),
   JsonFile([lastUpdated |-> "2025-01-01", totalCountries |-> 99,
             dataSource |-> "manual", version |-> "1.0"])}

\* data/countries/<CODE>.json as generate_individual_country_files left them
\* when it last wrote the same store
FilesOf(store) == [c \in DOMAIN store |-> JsonFile(store[c])]

(* ----------------------- run() and main() ------------------------------ *)
\* as if run() saved before it fetched
NextStepSavesFirst(op) ==
  CASE op = "load" -> "save"
    [] op = "save" -> "gen"
    [] op = "gen"  -> "sg"
    [] op = "sg"   -> "us"
    [] op = "us"   -> "gb"
    [] op = "gb"   -> "ch"
    [] op = "ch"   -> "done"

\* the order of run() and fetch_all_sources()
NextStep(op) ==
  CASE op = "load" -> "sg"
    [] op = "sg"   -> "us"
    [] op = "us"   -> "gb"
    [] op = "gb"   -> "ch"
    [] op = "ch"   -> "save"
    [] op = "save" -> "gen"
    [] op = "gen"  -> "done"

\* the method returns: run() goes on to the next call, and main returns 0
\* after the last one; a caller of the bare method ("api") just gets control back
Returned(op) ==
  /\ last_call' = op
  /\ raised' = FALSE
  /\ before' = countries_data
  /\ call_day' = today
  /\ IF pc = "api"
     THEN UNCHANGED <<pc, steps, exit_code>>
     ELSE /\ pc' = NextStep(op)
          /\ steps' = Append(steps, op)
          /\ exit_code' = IF NextStep(op) = "done" THEN 0 ELSE exit_code

\* the method raises: the exception leaves run() and main returns 1
Raised(op) ==
  /\ last_call' = op
  /\ raised' = TRUE
  /\ before' = countries_data
  /\ call_day' = today
  /\ IF pc = "api"
     THEN UNCHANGED <<pc, steps, exit_code>>
     ELSE /\ pc' = "failed"
          /\ steps' = steps
          /\ exit_code' = 1

\* as if load_existing_data opened the file without testing that it exists
LoadOpensUnchecked ==
  /\ pc \in {"load", "api"}
  /\ IF countries_file.state # "json"
     THEN /\ Raised("load")
          /\ UNCHANGED countries_data
     ELSE /\ Returned("load")
          /\ countries_data' = countries_file.data
  /\ UNCHANGED <<countries_file, country_files, metadata_file, today, at_start, meta_run>>

Load ==
  /\ pc \in {"load", "api"}
  /\ IF countries_file.state = "malformed"
     THEN /\ Raised("load")
          /\ UNCHANGED countries_data
     ELSE /\ Returned("load")
          /\ countries_data' = IF countries_file.state = "json"
                               THEN countries_file.data ELSE countries_data
  /\ UNCHANGED <<countries_file, country_files, metadata_file, today, at_start, meta_run>>

FetchSG ==
  /\ pc \in {"sg", "api"}
  /\ IF SGRaises(countries_data)
     THEN /\ Raised("sg")
          /\ UNCHANGED countries_data
     ELSE /\ Returned("sg")
          /\ countries_data' = fetch_singapore_mas_data(countries_data, today)
  /\ UNCHANGED <<countries_file, country_files, metadata_file, today, at_start, meta_run>>

FetchUS ==
  /\ pc \in {"us", "api"}
  /\ IF PlaceholderRaises(countries_data, "US")
     THEN /\ Raised("us")
          /\ UNCHANGED countries_data
     ELSE /\ Returned("us")
          /\ countries_data' = fetch_us_sec_data(countries_data, today)
  /\ UNCHANGED <<countries_file, country_files, metadata_file, today, at_start, meta_run>>

FetchGB ==
  /\ pc \in {"gb", "api"}
  /\ IF PlaceholderRaises(countries_data, "GB")
     THEN /\ Raised("gb")
          /\ UNCHANGED countries_data
     ELSE /\ Returned("gb")
          /\ countries_data' = fetch_uk_fca_data(countries_data, today)
  /\ UNCHANGED <<countries_file, country_files, metadata_file, today, at_start, meta_run>>

FetchCH ==
  /\ pc \in {"ch", "api"}
  /\ IF PlaceholderRaises(countries_data, "CH")
     THEN /\ Raised("ch")
          /\ UNCHANGED countries_data
     ELSE /\ Returned("ch")
          /\ countries_data' = fetch_switzerland_finma_data(countries_data, today)
  /\ UNCHANGED <<countries_file, country_files, metadata_file, today, at_start, meta_run>>

\* as if save_data wrote only the records an updater has stamped
SaveDataFetchedOnly ==
  /\ pc = "save"
  /\ Returned("save")
  /\ countries_file' =
       JsonFile([c \in {k \in DOMAIN countries_data :
                          /\ "autoFetched" \in DOMAIN countries_data[k]
                          /\ countries_data[k]["autoFetched"] = TRUE}
                   |-> countries_data[c]])
  /\ UNCHANGED <<countries_data, country_files, metadata_file, today, at_start, meta_run>>

SaveData ==
  /\ pc = "save"
  /\ Returned("save")
  /\ countries_file' = JsonFile(countries_data)
  /\ UNCHANGED <<countries_data, country_files, metadata_file, today, at_start, meta_run>>

GenerateFiles ==
  /\ pc = "gen"
  /\ Returned("gen")
  /\ country_files' = SetItems(country_files, FilesOf(countries_data))
  /\ UNCHANGED <<countries_data, countries_file, metadata_file, today, at_start, meta_run>>

\* the scheduler starts the script again: a new process, a new RegulationFetcher
NewRun ==
  /\ pc \in {"done", "failed"}
  /\ pc' = "load"
  /\ countries_data' = EmptyObject
  /\ exit_code' = -1
  /\ steps' = <<>>
  /\ last_call' = "none"
  /\ raised' = FALSE
  /\ before' = EmptyObject
  /\ call_day' = today
  /\ at_start' = [agg |-> countries_file, files |-> country_files]
  /\ UNCHANGED <<countries_file, country_files, metadata_file, today, meta_run>>

\* one run of update_metadata.main; the scheduler runs one script at a time,
\* so the fetch process has not taken a step yet or has exited
UpdateMetadata ==
  /\ pc \in {"load", "done", "failed"}
  /\ IF UpdateMetadataRaises(metadata_file, countries_file)
     THEN /\ UNCHANGED metadata_file
          /\ meta_run' = [ran |-> TRUE, exit |-> 1, prev |-> metadata_file,
                          agg |-> countries_file, day |-> today]
     ELSE /\ metadata_file' = update_metadata(metadata_file, countries_file, today)
          /\ meta_run' = [ran |-> TRUE, exit |-> 0, prev |-> metadata_file,
                          agg |-> countries_file, day |-> today]
  /\ UNCHANGED <<countries_data, countries_file, country_files, today, pc, exit_code,
                 last_call, raised, before, call_day, steps, at_start>>

\* midnight passes
Tick ==
  /\ today < MaxDay
  /\ today' = today + 1
  /\ UNCHANGED <<countries_data, countries_file, country_files, metadata_file, pc,
                 exit_code, last_call, raised, before, call_day, steps, at_start, meta_run>>

NoMetaRun == [ran |-> FALSE, exit |-> -1, prev |-> AbsentFile, agg |-> AbsentFile,
              day |-> FirstDay]

\* RegulationFetcher.__init__, over some content of the data directory
Constructed ==
  /\ countries_file \in SampleCountriesFiles
  /\ country_files = IF countries_file.state = "json"
                     THEN FilesOf(countries_file.data) ELSE EmptyObject
  /\ countries_data = EmptyObject
  /\ today = FirstDay
  /\ exit_code = -1
  /\ last_call = "none"
  /\ raised = FALSE
  /\ before = EmptyObject
  /\ call_day = FirstDay
  /\ steps = <<>>
  /\ at_start = [agg |-> countries_file, files |-> country_files]
  /\ meta_run = NoMetaRun

\* either the two scripts as the scheduler runs them, or the methods of one
\* RegulationFetcher called in any order by a caller that catches what they raise
Init ==
  /\ Constructed
  /\ \/ pc = "load" /\ metadata_file \in SampleMetadataFiles
     \/ pc = "api" /\ metadata_file = AbsentFile

Next ==
  \/ Load
  \/ FetchSG
  \/ FetchUS
  \/ FetchGB
  \/ FetchCH
  \/ SaveData
  \/ GenerateFiles
  \/ NewRun
  \/ UpdateMetadata
  \/ Tick

Spec == Init /\ [][Next]_vars

(* ============================ properties =============================== *)
\* the method that updates a country code
OpOf(code) ==
  CASE code = "SG" -> "sg" [] code = "US" -> "us" [] code = "GB" -> "gb" [] code = "CH" -> "ch"

PlaceholderCodes == {"US", "GB", "CH"}

StructuredFields ==
  {"regulations", "requirements", "authorities", "sources", "whitepapers",
   "consultationPapers", "legalFramework"}

\* the keys fetch_singapore_mas_data assigns
WrittenKeys == StructuredFields \cup {"overview", "lastUpdated", "autoFetched", "dataVersion"}

StampKeys == {"lastUpdated", "autoFetched"}

\* C1: a placeholder updater called on a store with no record for its country
\* code returns without raising and leaves the store exactly as it was, and
\* run() goes on to its next step
C1_MissingCountryIsSkipped ==
  \A code \in PlaceholderCodes :
    (last_call = OpOf(code) /\ code \notin DOMAIN before)
      => /\ ~raised
         /\ countries_data = before
         /\ pc \in {"api", NextStep(OpOf(code))}
         /\ exit_code # 1

C1_Witness ==
  /\ last_call = "gb"
  /\ "GB" \notin DOMAIN before
  /\ "US" \in DOMAIN before
  /\ pc = "ch"

\* C2: the Singapore updater called on a store with no SG record adds an SG
\* record whose seven structured fields are non-empty and whose dataVersion is
\* "2.0", and every other record of the store is the same before and after
C2_SingaporeIsCreated ==
  (last_call = "sg" /\ "SG" \notin DOMAIN before)
    => /\ ~raised
       /\ DOMAIN countries_data = DOMAIN before \cup {"SG"}
       /\ \A f \in StructuredFields :
            /\ f \in DOMAIN countries_data["SG"]
            /\ Len(countries_data["SG"][f]) > 0
       /\ countries_data["SG"]["dataVersion"] = "2.0"
       /\ \A c \in DOMAIN before : countries_data[c] = before[c]

C2_Witness ==
  /\ last_call = "sg"
  /\ DOMAIN before = {"US"}
  /\ before["US"] = MinimalRecord
  /\ "SG" \in DOMAIN countries_data

\* C3 as stated: after the Singapore updater has run on a store that held an
\* SG record, the SG record is the one the knowledge base and the date of the
\* call determine, whatever the record held before
C3_FullyReplaced ==
  (last_call = "sg" /\ ~raised /\ "SG" \in DOMAIN before)
    => countries_data["SG"] = SGAssignments(call_day)

\* C3 amended: the eleven keys the updater assigns hold what the knowledge
\* base and the date of the call determine, and every other key of the prior
\* SG record is kept with its prior value
C3_WrittenKeysReplaced ==
  (last_call = "sg" /\ ~raised /\ "SG" \in DOMAIN before)
    => /\ DOMAIN countries_data["SG"] = DOMAIN before["SG"] \cup WrittenKeys
       /\ \A k \in WrittenKeys : countries_data["SG"][k] = SGAssignments(call_day)[k]
       /\ \A k \in DOMAIN before["SG"] \ WrittenKeys :
            countries_data["SG"][k] = before["SG"][k]

C3_Witness ==
  /\ last_call = "sg"
  /\ ~raised
  /\ "SG" \in DOMAIN before
  /\ before["SG"] = RichRecord
  /\ countries_data["SG"]["name"] = "prior name"
  /\ countries_data["SG"]["overview"] = SGKnowledgeBase["overview"]

\* C4: a placeholder updater called on a store that holds a record for its
\* country code sets that record's lastUpdated to the date of the call and its
\* autoFetched to true; the record's other fields and the store's other
\* records are the same before and after
C4_PlaceholderStampsOnly ==
  \A code \in PlaceholderCodes :
    (last_call = OpOf(code) /\ code \in DOMAIN before /\ IsDict(before[code]))
      => /\ ~raised
         /\ DOMAIN countries_data = DOMAIN before
         /\ DOMAIN countries_data[code] = DOMAIN before[code] \cup StampKeys
         /\ countries_data[code]["lastUpdated"] = strftime(call_day)
         /\ countries_data[code]["autoFetched"] = TRUE
         /\ \A k \in DOMAIN before[code] \ StampKeys :
              countries_data[code][k] = before[code][k]
         /\ \A c \in DOMAIN before \ {code} : countries_data[c] = before[c]

C4_Witness ==
  /\ last_call = "us"
  /\ ~raised
  /\ "US" \in DOMAIN before
  /\ before["US"] = RichRecord
  /\ "GB" \in DOMAIN before
  /\ countries_data["US"]["lastUpdated"] = strftime(MaxDay)

Updaters == {"sg", "us", "gb", "ch"}

\* the orders in which the four updaters can be called once each
Orders == {o \in [1..4 -> Updaters] : \A a \in Updaters : \E i \in 1..4 : o[i] = a}

\* no updater raises on the store: what it holds for the known codes are records
AllRecords(store) == \A c \in DOMAIN store \cap Codes : IsDict(store[c])

\* C5: on any store of records a caller holds, calling the four updaters on
\* the same day in any order leaves the store fetch_all_sources leaves
C5_OrderInsensitive ==
  (pc = "api" /\ AllRecords(countries_data))
    => LET final == fetch_all_sources(countries_data, today)
       IN  \A o \in Orders : CallInOrder(o, countries_data, today) = final

C5_Witness ==
  /\ pc = "api"
  /\ "SG" \notin DOMAIN countries_data
  /\ {"US", "GB"} \subseteq DOMAIN countries_data
  /\ AllRecords(countries_data)
  /\ "CH" \notin DOMAIN countries_data
  /\ countries_data["GB"] = RichRecord
  /\ fetch_all_sources(countries_data, today)["GB"]["autoFetched"] = TRUE
  /\ CallInOrder(<<"ch", "gb", "us", "sg">>, countries_data, today) # countries_data

\* the store without the lastUpdated field of its SG record
WithoutLastUpdated(store) ==
  IF "SG" \in DOMAIN store /\ IsDict(store["SG"])
  THEN SetItems(store,
         [c \in {"SG"} |->
            [k \in DOMAIN store["SG"] \ {"lastUpdated"} |-> store["SG"][k]]])
  ELSE store

\* C6: a call of the Singapore updater that follows a call of the Singapore
\* updater changes nothing in the store but the lastUpdated field of the SG
\* record
C6_SecondCallChangesNothing ==
  [][(last_call = "sg" /\ ~raised /\ FetchSG)
       => WithoutLastUpdated(countries_data') = WithoutLastUpdated(countries_data)]_vars

C6_Witness ==
  /\ last_call = "sg"
  /\ ~raised
  /\ "SG" \in DOMAIN before
  /\ "name" \in DOMAIN before["SG"]
  /\ before["SG"]["regulations"] = SGKnowledgeBase["regulations"]
  /\ before["SG"]["lastUpdated"] = strftime(FirstDay)
  /\ countries_data["SG"]["lastUpdated"] = strftime(MaxDay)
  /\ countries_data # before

MetadataKeys == {"lastUpdated", "totalCountries", "dataSource"}

\* C7: a run of update_metadata that completes persists a totalCountries equal
\* to the number of keys the aggregate file held when it ran, 0 when there
\* was no aggregate file; with no aggregate file and a readable metadata file
\* the run completes
C7_TotalIsKeyCount ==
  /\ (meta_run.ran /\ meta_run.exit = 0)
       => /\ metadata_file.state = "json"
          /\ meta_run.agg.state \in {"json", "absent"}
          /\ meta_run.agg.state = "json"
               => metadata_file.data["totalCountries"] = Cardinality(DOMAIN meta_run.agg.data)
          /\ meta_run.agg.state = "absent"
               => metadata_file.data["totalCountries"] = 0
  /\ (meta_run.ran /\ meta_run.agg.state = "absent"
        /\ (meta_run.prev.state = "absent"
              \/ (meta_run.prev.state = "json" /\ IsDict(meta_run.prev.data))))
       => meta_run.exit = 0

C7_Witness ==
  /\ meta_run.ran
  /\ meta_run.exit = 0
  /\ meta_run.agg.state = "json"
  /\ metadata_file.data["totalCountries"] = 4
  /\ meta_run.prev.state = "json"
  /\ "totalCountries" \in DOMAIN meta_run.prev.data
  /\ meta_run.prev.data["totalCountries"] = 99
  /\ countries_file # meta_run.agg

\* C8: a run of update_metadata over a stored metadata object sets
\* lastUpdated, totalCountries and dataSource (dataSource to the fixed string,
\* whatever it held) and writes every other key back with its value; with no
\* metadata file the result has exactly those three keys
C8_ThreeFieldsOverwritten ==
  (meta_run.ran /\ meta_run.exit = 0)
    => /\ metadata_file.data["dataSource"] = DataSource
       /\ metadata_file.data["lastUpdated"] = strftime(meta_run.day)
       /\ metadata_file.data["totalCountries"] = total_countries(meta_run.agg)
       /\ meta_run.prev.state = "json"
            => /\ DOMAIN metadata_file.data = DOMAIN meta_run.prev.data \cup MetadataKeys
               /\ \A k \in DOMAIN meta_run.prev.data \ MetadataKeys :
                    metadata_file.data[k] = meta_run.prev.data[k]
       /\ meta_run.prev.state = "absent"
            => DOMAIN metadata_file.data = MetadataKeys

C8_Witness ==
  /\ meta_run.ran
  /\ meta_run.exit = 0
  /\ meta_run.prev.state = "json"
  /\ "version" \in DOMAIN meta_run.prev.data
  /\ meta_run.prev.data["dataSource"] = "manual"
  /\ metadata_file.data["version"] = "1.0"
  /\ metadata_file.data["dataSource"] = DataSource

FullRun == <<"load", "sg", "us", "gb", "ch", "save", "gen">>

\* C9: with no aggregate file load_existing_data returns without raising and
\* leaves the store as it was, empty in a new RegulationFetcher; a run of main
\* started with no aggregate file does not fail, and when it is done it has
\* returned 0 and the aggregate file holds a store whose only key is SG
C9_MissingFileIsEmptyStore ==
  /\ (last_call = "load" /\ countries_file.state = "absent")
       => /\ ~raised
          /\ countries_data = before
          /\ (pc # "api" => countries_data = EmptyObject)
  /\ (pc # "api" /\ at_start.agg.state = "absent")
       => /\ pc # "failed"
          /\ exit_code # 1
          /\ pc = "done"
               => /\ exit_code = 0
                  /\ countries_file.state = "json"
                  /\ DOMAIN countries_file.data = {"SG"}
                  /\ DOMAIN country_files = {"SG"}

C9_Witness ==
  /\ pc = "done"
  /\ at_start.agg.state = "absent"
  /\ exit_code = 0
  /\ countries_file.state = "json"
  /\ DOMAIN countries_file.data = {"SG"}

\* the first n methods of run()
Prefix(n) == SubSeq(FullRun, 1, n)

\* the place of a method in run()
IndexOf(op) == CHOOSE i \in 1..Len(FullRun) : FullRun[i] = op

\* C10: when load_existing_data or an updater raises in a run of main, the
\* steps after it are not taken, the aggregate file and the per-country files
\* are as they were when the run started, and main returns 1; main returns 0
\* only when load, the four updaters, save_data and
\* generate_individual_country_files have completed in that order
C10_FailureWritesNothing ==
  pc # "api"
    => /\ raised
            => /\ pc = "failed"
               /\ last_call \in {"load", "sg", "us", "gb", "ch"}
       /\ pc = "failed"
            => /\ raised
               /\ exit_code = 1
               /\ steps = Prefix(IndexOf(last_call) - 1)
               /\ countries_file = at_start.agg
               /\ country_files = at_start.files
       /\ exit_code = 0 => (steps = FullRun /\ pc = "done")
       /\ exit_code = 1 => pc = "failed"

C10_Witness ==
  /\ pc = "failed"
  /\ last_call = "gb"
  /\ steps = <<"load", "sg", "us">>
  /\ exit_code = 1
  /\ at_start.agg.state = "json"
  /\ countries_data # at_start.agg.data

\* the country codes a file holds
FileKeys(file) == IF file.state = "json" THEN DOMAIN file.data ELSE {}

\* C11: no call of an updater, no save and no run of update_metadata removes
\* a country code from the store or from the aggregate file: after each of
\* these steps both key sets contain what they contained before it
C11_KeysNeverLost ==
  [][(FetchSG \/ FetchUS \/ FetchGB \/ FetchCH \/ SaveData \/ GenerateFiles
        \/ UpdateMetadata)
       => /\ DOMAIN countries_data \subseteq DOMAIN countries_data'
          /\ FileKeys(countries_file) \subseteq FileKeys(countries_file')]_vars

C11_Witness ==
  /\ pc = "gen"
  /\ last_call = "save"
  /\ meta_run.ran
  /\ at_start.agg.state = "json"
  /\ OtherCode \in DOMAIN at_start.agg.data
  /\ "SG" \notin DOMAIN at_start.agg.data
  /\ FileKeys(countries_file) = DOMAIN at_start.agg.data \cup {"SG"}
  /\ DOMAIN countries_data = FileKeys(countries_file)

====
